---- MODULE Spec2Model ----
(***************************************************************************)
(* Terminal chat client: the cursor-aware text buffer, the keystroke       *)
(* dispatch cascade, the keyboard hand-off cell, the chat service (message *)
(* queue, sendMessage fibers) and the transcript projector.                *)
(*                                                                         *)
(* A string is a sequence of one-character tokens; a control character is  *)
(* one token ("CR", "DEL", "ESC", ...).                                    *)
(***************************************************************************)
EXTENDS Integers, Sequences, FiniteSets, TLC

(* ------------------------------ bounds -------------------------------- *)
\* longest line the keyboard is allowed to type
MaxLen == 2
\* number of submissions (sendMessage calls) in a run of the chat side
MaxSubmits == 2
\* number of submissions in a run of the keyboard side
MaxKeyboardSubmits == 1
\* number of keypress events delivered between two dispatches
MaxPending == 2
\* most lines of a buffer the editing operations are applied to
MaxLines == 2

VARIABLES
    textBufferState,  \* [lines, cursor: [row, column]]
    previousBuffer,   \* history: textBufferState when the last dispatch began
    inputMode,        \* "normal" | "help"
    lastKeyEvent,     \* the Key last stored by handleKeypress, or NoKey
    keyDirty,         \* lastKeyEvent changed since the UI last rendered
    undispatched,     \* history: keypress events delivered since the last dispatch
    exited,           \* process.exit(0) was called
    isStreaming,      \* isStreamingAtom
    timers,           \* number of pending setTimeout(..., 600) callbacks
    fibers,           \* one record per sendMessage call, in call order
    messageQueue,     \* items buffered in the queue
    queueShutdown,    \* the queue's shutdown flag
    chunk,            \* items the stream has taken and not yet emitted
    streamEnded,      \* the projector's stream has ended
    messages,         \* messagesAtom: the transcript
    offered           \* history: every message accepted by Queue.offer, in order

vars == <<textBufferState, previousBuffer, inputMode, lastKeyEvent, keyDirty,
          undispatched, exited, isStreaming, timers, fibers, messageQueue, queueShutdown, chunk,
          streamEnded, messages, offered>>

(* ----------------------------- strings -------------------------------- *)
Min(a, b) == IF a < b THEN a ELSE b
Max(a, b) == IF a > b THEN a ELSE b

\* String.prototype.slice(from, to): negative indices count from the end,
\* both ends are clamped to [0, length]
SliceIndex(n, i) == IF i < 0 THEN Max(n + i, 0) ELSE Min(i, n)
Slice(s, from, to) ==
    LET a == SliceIndex(Len(s), from)
        b == SliceIndex(Len(s), to)
    IN  IF a >= b THEN <<>> ELSE SubSeq(s, a + 1, b)
\* slice(from) with the end omitted
SliceFrom(s, from) == Slice(s, from, Len(s))

\* lines.join("\n")
RECURSIVE Join(_)
Join(ls) ==
    IF ls = <<>> THEN <<>>
    ELSE IF Len(ls) = 1 THEN ls[1]
    ELSE ls[1] \o <<"LF">> \o Join(Tail(ls))

WhiteSpace == {" ", "LF", "CR", "TAB"}
\* String.prototype.trim()
RECURSIVE TrimStart(_)
TrimStart(s) ==
    IF s # <<>> /\ s[1] \in WhiteSpace THEN TrimStart(Tail(s)) ELSE s
RECURSIVE TrimEnd(_)
TrimEnd(s) ==
    IF s # <<>> /\ s[Len(s)] \in WhiteSpace
    THEN TrimEnd(SubSeq(s, 1, Len(s) - 1)) ELSE s
Trim(s) == TrimEnd(TrimStart(s))

(* --------------------------- text buffer ------------------------------ *)
InitialBuffer == [lines |-> << <<>> >>, cursor |-> [row |-> 0, column |-> 0]]

\* lines[i] with JavaScript's zero-based index
LineAt(lines, i) == lines[i + 1]

\* the shape the buffer operations keep: at least one line, the cursor on a
\* line of the buffer and inside it or at its end
WellFormed(b) ==
    /\ Len(b.lines) >= 1
    /\ b.cursor.row >= 0
    /\ b.cursor.row < Len(b.lines)
    /\ b.cursor.column >= 0
    /\ b.cursor.column <= Len(LineAt(b.lines, b.cursor.row))

textBufferString(state) == Join(state.lines)
\* an emptiness test that forgets to trim
textBufferIsEmptyNoTrim(state) == Len(textBufferString(state)) = 0

textBufferIsEmpty(state) == Len(Trim(textBufferString(state))) = 0

\* an insert that breaks the line at the cursor when the character is a
\* linefeed
insertCharBreaksLine(state, char) ==
    LET lines == state.lines
        cursor == state.cursor
        line == LineAt(lines, cursor.row)
        newLine == Slice(line, 0, cursor.column) \o char
                   \o SliceFrom(line, cursor.column)
    IN  IF char = <<"LF">>
        THEN [lines |-> SubSeq(lines, 1, cursor.row)
                        \o <<Slice(line, 0, cursor.column),
                              SliceFrom(line, cursor.column)>>
                        \o SubSeq(lines, cursor.row + 2, Len(lines)),
              cursor |-> [row |-> cursor.row + 1, column |-> 0]]
        ELSE [lines |-> [lines EXCEPT ![cursor.row + 1] = newLine],
              cursor |-> [row |-> cursor.row, column |-> cursor.column + 1]]

\* an insert that puts the character at the end of the line
insertCharAtEnd(state, char) ==
    LET lines == state.lines
        cursor == state.cursor
        line == LineAt(lines, cursor.row)
        newLines == [lines EXCEPT ![cursor.row + 1] = line \o char]
    IN  [lines |-> newLines,
         cursor |-> [row |-> cursor.row, column |-> cursor.column + 1]]

insertChar(state, char) ==
    LET lines == state.lines
        cursor == state.cursor
        line == LineAt(lines, cursor.row)
        newLine == Slice(line, 0, cursor.column) \o char
                   \o SliceFrom(line, cursor.column)
        newLines == [lines EXCEPT ![cursor.row + 1] = newLine]
    IN  [lines |-> newLines,
         cursor |-> [row |-> cursor.row, column |-> cursor.column + 1]]

\* moveCursor without its range check
moveCursorUnchecked(state, direction) ==
    [state EXCEPT !.cursor.column =
        @ + (IF direction = "left" THEN -1 ELSE 1)]

\* a moveCursor bounded by the line the cursor is on
moveCursorCurrentLine(state, direction) ==
    LET columnModifier == IF direction = "left" THEN -1 ELSE 1
        futureColumn == state.cursor.column + columnModifier
        line == LineAt(state.lines, state.cursor.row)
    IN  IF futureColumn < 0 \/ futureColumn > Len(line) THEN state
        ELSE [state EXCEPT !.cursor =
                 [row |-> state.cursor.row, column |-> futureColumn]]

moveCursor(state, direction) ==
    LET columnModifier == IF direction = "left" THEN -1 ELSE 1
        futureColumn == state.cursor.column + columnModifier
        lines == state.lines
        \* lines.at(-1)?.length ?? Infinity
        aboveLastLine == lines # <<>> /\ futureColumn > Len(lines[Len(lines)])
    IN  IF futureColumn < 0 \/ aboveLastLine THEN state
        ELSE [state EXCEPT !.cursor =
                 [row |-> state.cursor.row, column |-> futureColumn]]

\* Array.prototype.splice(i, 1) with a zero-based index
RemoveAt(s, i) == SubSeq(s, 1, i) \o SubSeq(s, i + 2, Len(s))

\* a delete whose merge puts the cursor at the end of the merged line
deleteCharCursorAfterMerge(state) ==
    LET lines == state.lines
        cursor == state.cursor
    IN  IF cursor.column = 0 THEN
            IF cursor.row > 0 THEN
                LET prevLine == LineAt(lines, cursor.row - 1)
                    currLine == LineAt(lines, cursor.row)
                    merged == [lines EXCEPT ![cursor.row] = prevLine \o currLine]
                    newLines == RemoveAt(merged, cursor.row)
                IN  [lines |-> newLines,
                     cursor |-> [row |-> cursor.row - 1,
                                 column |-> Len(prevLine \o currLine)]]
            ELSE state
        ELSE
            LET line == LineAt(lines, cursor.row)
                newLine == Slice(line, 0, cursor.column - 1)
                           \o SliceFrom(line, cursor.column)
                newLines == [lines EXCEPT ![cursor.row + 1] = newLine]
            IN  [lines |-> newLines,
                 cursor |-> [row |-> cursor.row, column |-> cursor.column - 1]]

deleteChar(state) ==
    LET lines == state.lines
        cursor == state.cursor
    IN  IF cursor.column = 0 THEN
            IF cursor.row > 0 THEN
                LET prevLine == LineAt(lines, cursor.row - 1)
                    currLine == LineAt(lines, cursor.row)
                    merged == [lines EXCEPT ![cursor.row] = prevLine \o currLine]
                    newLines == RemoveAt(merged, cursor.row)
                IN  [lines |-> newLines,
                     cursor |-> [row |-> cursor.row - 1,
                                 column |-> Len(prevLine)]]
            ELSE state
        ELSE
            LET line == LineAt(lines, cursor.row)
                newLine == Slice(line, 0, cursor.column - 1)
                           \o SliceFrom(line, cursor.column)
                newLines == [lines EXCEPT ![cursor.row + 1] = newLine]
            IN  [lines |-> newLines,
                 cursor |-> [row |-> cursor.row, column |-> cursor.column - 1]]

\* a clear that moves the cursor home and keeps the text
clearTextBufferKeepsText(state) ==
    [state EXCEPT !.cursor = [row |-> 0, column |-> 0]]

\* a clear that empties the text and leaves the cursor column where it was
clearTextBufferKeepsColumn(state) ==
    [lines |-> << <<>> >>,
     cursor |-> [row |-> 0, column |-> state.cursor.column]]

clearTextBuffer(state) == InitialBuffer

(* ------------------------------- keys --------------------------------- *)
MkKey(name, sequence, ctrl, meta, shift) ==
    [name |-> name, sequence |-> sequence, ctrl |-> ctrl, meta |-> meta,
     shift |-> shift]

\* the initial value of lastKeyEventAtom (null)
NoKey == MkKey("null", <<>>, FALSE, FALSE, FALSE)

KeyCtrlC     == MkKey("c", <<"ETX">>, TRUE, FALSE, FALSE)
KeyCtrlA     == MkKey("a", <<"SOH">>, TRUE, FALSE, FALSE)
KeyReturn    == MkKey("return", <<"CR">>, FALSE, FALSE, FALSE)
KeyBackspace == MkKey("backspace", <<"DEL">>, FALSE, FALSE, FALSE)
KeyCtrlU     == MkKey("u", <<"NAK">>, TRUE, FALSE, FALSE)
KeyLeft      == MkKey("left", <<"ESC", "[", "D">>, FALSE, FALSE, FALSE)
KeyRight     == MkKey("right", <<"ESC", "[", "C">>, FALSE, FALSE, FALSE)
KeyA         == MkKey("a", <<"a">>, FALSE, FALSE, FALSE)
KeySpace     == MkKey("space", <<" ">>, FALSE, FALSE, FALSE)
KeyUp        == MkKey("up", <<"ESC", "[", "A">>, FALSE, FALSE, FALSE)
KeyMetaA     == MkKey("a", <<"ESC", "a">>, FALSE, TRUE, FALSE)
KeyCtrlX     == MkKey("x", <<"CAN">>, TRUE, FALSE, FALSE)

\* a linefeed (ctrl+j, or a pasted newline): readline names it "enter"
KeyEnter     == MkKey("enter", <<"LF">>, FALSE, FALSE, FALSE)

\* the keypress events the terminal delivers in this model
Keys == {KeyCtrlC, KeyCtrlA, KeyReturn, KeyBackspace, KeyCtrlU, KeyLeft,
         KeyRight, KeyA, KeySpace, KeyUp, KeyMetaA, KeyCtrlX}

(* ---------------------------- dispatcher ------------------------------ *)
\* the cascade with the help-mode case tested before the two control keys
MatchKeyHelpFirst(key, mode) ==
    IF mode = "help" THEN "help"
    ELSE IF key.ctrl = TRUE /\ key.name = "c" THEN "exit"
    ELSE IF key.ctrl = TRUE /\ key.name = "a" THEN "toggle"
    ELSE IF key.name = "return" THEN "return"
    ELSE IF key.name = "backspace" THEN "backspace"
    ELSE IF key.ctrl = TRUE /\ key.name = "u" THEN "clear"
    ELSE IF key.name = "left" \/ key.name = "right" THEN "move"
    ELSE IF Len(key.sequence) = 1 /\ ~key.ctrl /\ ~key.meta THEN "insert"
    ELSE "orElse"

\* the cascade without the help-mode case
MatchKeyNoHelp(key, mode) ==
    IF key.ctrl = TRUE /\ key.name = "c" THEN "exit"
    ELSE IF key.ctrl = TRUE /\ key.name = "a" THEN "toggle"
    ELSE IF key.name = "return" THEN "return"
    ELSE IF key.name = "backspace" THEN "backspace"
    ELSE IF key.ctrl = TRUE /\ key.name = "u" THEN "clear"
    ELSE IF key.name = "left" \/ key.name = "right" THEN "move"
    ELSE IF Len(key.sequence) = 1 /\ ~key.ctrl /\ ~key.meta THEN "insert"
    ELSE "orElse"

\* The Match.value(key) cascade of handleKeyEventAtom: the tag of the first
\* Match.when whose pattern accepts the key, in source order.
MatchKey(key, mode) ==
    IF key.ctrl = TRUE /\ key.name = "c" THEN "exit"
    ELSE IF key.ctrl = TRUE /\ key.name = "a" THEN "toggle"
    ELSE IF mode = "help" THEN "help"
    ELSE IF key.name = "return" THEN "return"
    ELSE IF key.name = "backspace" THEN "backspace"
    ELSE IF key.ctrl = TRUE /\ key.name = "u" THEN "clear"
    ELSE IF key.name = "left" \/ key.name = "right" THEN "move"
    ELSE IF Len(key.sequence) = 1 /\ ~key.ctrl /\ ~key.meta THEN "insert"
    ELSE "orElse"

(* --------------------------- chat service ----------------------------- *)
\* the canned replies of sendMessage; each reply text is kept as one token
responses ==
    << <<"That's interesting! Tell me more.">>,
       <<"I understand what you mean.">>,
       <<"How does that make you feel?">>,
       <<"Fascinating perspective!">>,
       <<"Could you elaborate on that?">> >>

\* Math.floor(Math.random() * responses.length), zero-based: the outcomes
\* explored are the first and the last index
RandomIndexes == {0, Len(responses) - 1}

\* crypto.randomUUID() is modelled by the pair (call number, role), which is
\* unique per message; the timestamp is not modelled
UserMsg(i, content) ==
    [id |-> <<i, "user">>, type |-> "user", content |-> content]
AiMsg(i, r) ==
    [id |-> <<i, "assistant">>, type |-> "assistant",
     content |-> responses[r + 1]]

\* the call number of the sendMessage call that built message m
CallOf(m) == m.id[1]

Running(f) == f.exit = "running"

\* A function atom holds one running effect: a new call disposes the lifetime
\* of the previous call, which interrupts its fiber if it has not finished.
InterruptPrevious(fs) ==
    IF fs # <<>> /\ Running(fs[Len(fs)])
    THEN [fs EXCEPT ![Len(fs)].exit = "interrupt"]
    ELSE fs

\* an offer that does not look at the shutdown flag
OfferAlwaysAccepted == TRUE

\* Queue.offer: on a queue that has been shut down the offering fiber is
\* interrupted and nothing is added; otherwise the item is appended.
OfferAccepted == ~queueShutdown

\* a sendMessage that offers the reply where the user message belongs
SendMessageReplyFirst(message) ==
    LET i == Len(fibers) + 1
        aiMsg == AiMsg(i, 0)
    IN  /\ messageQueue' = Append(messageQueue, aiMsg)
        /\ offered' = Append(offered, aiMsg)
        /\ fibers' = Append(fibers, [content |-> message, pc |-> "end",
                                    exit |-> "success"])

\* sendMessageAtom called with `message`: analytics.track (a counter outside
\* this model), then chat.sendMessage up to its first suspension, the sleep.
SendMessage(message) ==
    LET i == Len(fibers) + 1
        prior == InterruptPrevious(fibers)
        userMsg == UserMsg(i, message)
    IN  IF OfferAccepted
        THEN /\ messageQueue' = Append(messageQueue, userMsg)
             /\ offered' = Append(offered, userMsg)
             /\ fibers' = Append(prior, [content |-> message, pc |-> "sleep",
                                        exit |-> "running"])
        ELSE /\ UNCHANGED <<messageQueue, offered>>
             /\ fibers' = Append(prior, [content |-> message,
                                        pc |-> "offerUser",
                                        exit |-> "interrupt"])

\* Effect.sleep("500 millis") of call i is over: build the reply and offer it
Reply(i) ==
    /\ ~exited
    /\ i \in 1..Len(fibers)
    /\ Running(fibers[i])
    /\ fibers[i].pc = "sleep"
    /\ \E r \in RandomIndexes :
          LET aiMsg == AiMsg(i, r)
          IN  IF OfferAccepted
              THEN /\ messageQueue' = Append(messageQueue, aiMsg)
                   /\ offered' = Append(offered, aiMsg)
                   /\ fibers' = [fibers EXCEPT ![i].pc = "end",
                                              ![i].exit = "success"]
              ELSE /\ UNCHANGED <<messageQueue, offered>>
                   /\ fibers' = [fibers EXCEPT ![i].pc = "offerAi",
                                              ![i].exit = "interrupt"]
    /\ UNCHANGED <<textBufferState, previousBuffer, inputMode, lastKeyEvent,
                   keyDirty, undispatched,
                   exited, isStreaming, timers, queueShutdown, chunk,
                   streamEnded, messages>>

\* a shutdown that fails on a queue that is already shut down
ShutdownOnlyOnce ==
    /\ ~queueShutdown
    /\ queueShutdown' = TRUE
    /\ UNCHANGED <<textBufferState, previousBuffer, inputMode, lastKeyEvent,
                   keyDirty, undispatched, exited, isStreaming, timers,
                   fibers, messageQueue, chunk, streamEnded, messages,
                   offered>>

\* Queue.shutdown(messageQueue): sets the flag; takers are interrupted and
\* what is still buffered can no longer be taken
Shutdown ==
    /\ queueShutdown' = TRUE
    /\ UNCHANGED <<textBufferState, previousBuffer, inputMode, lastKeyEvent,
                   keyDirty, undispatched,
                   exited, isStreaming, timers, fibers, messageQueue, chunk,
                   streamEnded, messages, offered>>

\* ChatService.dispose()
Dispose == ~exited /\ Shutdown

\* the finalizer of the service's scope
Finalizer == ~exited /\ Shutdown

(* ------------------------ transcript projector ------------------------ *)
\* a take that leaves the taken items in the queue
StreamTakeKeepsQueue ==
    /\ ~exited
    /\ ~streamEnded
    /\ chunk = <<>>
    /\ ~queueShutdown
    /\ messageQueue # <<>>
    /\ chunk' = messageQueue
    /\ UNCHANGED <<textBufferState, previousBuffer, inputMode, lastKeyEvent,
                   keyDirty,
                   undispatched, exited, isStreaming, timers, fibers,
                   messageQueue, queueShutdown, streamEnded, messages, offered>>

\* Stream.fromQueue pulls: it takes everything buffered (at least one item)
StreamTake ==
    /\ ~exited
    /\ ~streamEnded
    /\ chunk = <<>>
    /\ ~queueShutdown
    /\ messageQueue # <<>>
    /\ chunk' = messageQueue
    /\ messageQueue' = <<>>
    /\ UNCHANGED <<textBufferState, previousBuffer, inputMode, lastKeyEvent,
                   keyDirty, undispatched,
                   exited, isStreaming, timers, fibers, queueShutdown,
                   streamEnded, messages, offered>>

\* an append that puts the message in front: [msg, ...get(messagesAtom)]
ProjectorPrepend ==
    /\ ~exited
    /\ chunk # <<>>
    /\ messages' = <<Head(chunk)>> \o messages
    /\ chunk' = Tail(chunk)
    /\ UNCHANGED <<textBufferState, previousBuffer, inputMode, lastKeyEvent,
                   keyDirty,
                   undispatched, exited, isStreaming, timers, fibers,
                   messageQueue, queueShutdown, streamEnded, offered>>

\* Stream.runForEach body: get.set(messagesAtom, [...get(messagesAtom), msg])
ProjectorAppend ==
    /\ ~exited
    /\ chunk # <<>>
    /\ messages' = Append(messages, Head(chunk))
    /\ chunk' = Tail(chunk)
    /\ UNCHANGED <<textBufferState, previousBuffer, inputMode, lastKeyEvent,
                   keyDirty, undispatched,
                   exited, isStreaming, timers, fibers, messageQueue,
                   queueShutdown, streamEnded, offered>>

\* an end that does not wait for what the stream has already taken
StreamEndDropsChunk ==
    /\ ~exited
    /\ ~streamEnded
    /\ queueShutdown
    /\ streamEnded' = TRUE
    /\ chunk' = <<>>
    /\ UNCHANGED <<textBufferState, previousBuffer, inputMode, lastKeyEvent,
                   keyDirty,
                   undispatched, exited, isStreaming, timers, fibers,
                   messageQueue, queueShutdown, messages, offered>>

\* a pull on a queue that has been shut down ends the stream
StreamEnd ==
    /\ ~exited
    /\ ~streamEnded
    /\ chunk = <<>>
    /\ queueShutdown
    /\ streamEnded' = TRUE
    /\ UNCHANGED <<textBufferState, previousBuffer, inputMode, lastKeyEvent,
                   keyDirty, undispatched,
                   exited, isStreaming, timers, fibers, messageQueue,
                   queueShutdown, chunk, messages, offered>>

(* ----------------------------- keyboard ------------------------------- *)
\* handleKeyEventAtom: mode, isEmpty and text are read once, then the branch
\* the cascade selects runs to completion
HandleKeyEvent(key) ==
    LET mode == inputMode
        isEmpty == textBufferIsEmpty(textBufferState)
        text == textBufferString(textBufferState)
        branch == MatchKey(key, mode)
    IN  CASE branch = "exit" ->
               /\ exited' = TRUE
               /\ UNCHANGED <<textBufferState, inputMode, isStreaming, timers,
                              fibers, messageQueue, offered>>
          [] branch = "toggle" ->
               /\ inputMode' = IF mode = "help" THEN "normal" ELSE "help"
               /\ UNCHANGED <<textBufferState, exited, isStreaming, timers,
                              fibers, messageQueue, offered>>
          [] branch = "return" /\ ~isEmpty ->
               /\ isStreaming' = TRUE
               /\ SendMessage(text)
               /\ textBufferState' = clearTextBuffer(textBufferState)
               /\ timers' = timers + 1
               /\ UNCHANGED <<inputMode, exited>>
          [] branch = "backspace" ->
               /\ textBufferState' = deleteChar(textBufferState)
               /\ UNCHANGED <<inputMode, exited, isStreaming, timers, fibers,
                              messageQueue, offered>>
          [] branch = "clear" ->
               /\ textBufferState' = clearTextBuffer(textBufferState)
               /\ UNCHANGED <<inputMode, exited, isStreaming, timers, fibers,
                              messageQueue, offered>>
          [] branch = "move" ->
               /\ textBufferState' = moveCursor(textBufferState, key.name)
               /\ UNCHANGED <<inputMode, exited, isStreaming, timers, fibers,
                              messageQueue, offered>>
          [] branch = "insert" ->
               /\ textBufferState' = insertChar(textBufferState, key.sequence)
               /\ UNCHANGED <<inputMode, exited, isStreaming, timers, fibers,
                              messageQueue, offered>>
          [] OTHER ->
               \* help, orElse, and return on a blank buffer
               UNCHANGED <<textBufferState, inputMode, exited, isStreaming,
                           timers, fibers, messageQueue, offered>>

\* what keeps a run inside the bounds: a key is not pressed when its dispatch
\* would type past MaxLen or start a submission past maxSubmits
WithinBounds(key, maxSubmits) ==
    LET branch == MatchKey(key, inputMode)
    IN  /\ undispatched < MaxPending
        /\ branch = "insert" =>
              Len(LineAt(textBufferState.lines, textBufferState.cursor.row))
                 < MaxLen
        /\ (branch = "return" /\ ~textBufferIsEmpty(textBufferState)) =>
              Len(fibers) < maxSubmits

\* KeyboardProvider.handleKeypress: setLastKey(parsedKey); every parsedKey is
\* a new object, so every call changes the atom
KeyPress(key, maxSubmits) ==
    /\ ~exited
    /\ WithinBounds(key, maxSubmits)
    /\ lastKeyEvent' = key
    /\ keyDirty' = TRUE
    /\ undispatched' = undispatched + 1
    /\ UNCHANGED <<textBufferState, previousBuffer, inputMode, exited,
                   isStreaming, timers,
                   fibers, messageQueue, queueShutdown, chunk, streamEnded,
                   messages, offered>>

\* UI renders with the current lastKey and its effect calls
\* handleKeyEvent(lastKey); the effect runs once per render in which lastKey
\* differs from the previous render
UIEffect ==
    /\ ~exited
    /\ keyDirty
    /\ lastKeyEvent # NoKey
    /\ keyDirty' = FALSE
    /\ undispatched' = 0
    /\ previousBuffer' = textBufferState
    /\ HandleKeyEvent(lastKeyEvent)
    /\ UNCHANGED <<lastKeyEvent, queueShutdown, chunk, streamEnded, messages>>

\* The callback of setTimeout(() => get.set(isStreamingAtom, false), 600).
\* Every submission starts one timer, and the timers run out in the order
\* they were started: the oldest pending one belongs to the call numbered
\* Len(fibers) - timers + 1. Its 600 ms begin when the 500 ms sleep of that
\* call begins, so it does not run out while that call still sleeps.
TimerFire ==
    /\ ~exited
    /\ timers > 0
    /\ LET i == Len(fibers) - timers + 1
       IN  ~(Running(fibers[i]) /\ fibers[i].pc = "sleep")
    /\ isStreaming' = FALSE
    /\ timers' = timers - 1
    /\ UNCHANGED <<textBufferState, previousBuffer, inputMode, lastKeyEvent,
                   keyDirty, undispatched,
                   exited, fibers, messageQueue, queueShutdown, chunk,
                   streamEnded, messages, offered>>

(* --------------------------- specification ---------------------------- *)
\* the state once App is mounted: atoms at their initial values, the service
\* layer built, the projector forked by initializeChatAtom
Init ==
    /\ textBufferState = InitialBuffer
    /\ previousBuffer = InitialBuffer
    /\ inputMode = "normal"
    /\ lastKeyEvent = NoKey
    /\ keyDirty = FALSE
    /\ undispatched = 0
    /\ exited = FALSE
    /\ isStreaming = FALSE
    /\ timers = 0
    /\ fibers = <<>>
    /\ messageQueue = <<>>
    /\ queueShutdown = FALSE
    /\ chunk = <<>>
    /\ streamEnded = FALSE
    /\ messages = <<>>
    /\ offered = <<>>

\* the asynchronous steps of the chat service: the replies, the projector
\* and the shutdown of the queue
ChatStep ==
    \/ \E i \in 1..MaxSubmits : Reply(i)
    \/ StreamTake
    \/ ProjectorAppend
    \/ StreamEnd
    \/ Dispose
    \/ Finalizer

Next ==
    \/ \E key \in Keys : KeyPress(key, MaxSubmits)
    \/ UIEffect
    \/ TimerFire
    \/ ChatStep

\* the whole program, every key and every asynchronous step; the two
\* specifications below are its keyboard side and its chat side
Spec == Init /\ [][Next]_vars

\* the keyboard side: every key of Keys and its dispatch; no timer fires and
\* the chat service takes no step of its own
NextKeyboard ==
    \/ \E key \in Keys : KeyPress(key, MaxKeyboardSubmits)
    \/ UIEffect

SpecKeyboard == Init /\ [][NextKeyboard]_vars

\* the chat side: the keys that type and submit, and every step of the chat
\* service
ChatKeys == {KeyA, KeyReturn}

NextChat ==
    \/ \E key \in ChatKeys : KeyPress(key, MaxSubmits)
    \/ UIEffect
    \/ ChatStep

SpecChat == Init /\ [][NextChat]_vars

\* What the runtime schedules once it is enabled: the UI effect after a
\* render, the wake-up of a sleeping fiber, the pulls and the callback of the
\* projector fiber. Key presses and shutdown are left to the environment.
ChatFairness ==
    /\ WF_vars(UIEffect)
    /\ \A i \in 1..MaxSubmits : WF_vars(Reply(i))
    /\ WF_vars(StreamTake)
    /\ WF_vars(ProjectorAppend)
    /\ WF_vars(StreamEnd)

FairSpecChat == SpecChat /\ ChatFairness

\* the chat side with a user who types one-character messages and presses a
\* key only after the previous one has been dispatched
PacedKeyPress(key) ==
    /\ ~keyDirty
    /\ key = KeyA => textBufferState = InitialBuffer
    /\ KeyPress(key, MaxSubmits)

NextChatPaced ==
    \/ \E key \in ChatKeys : PacedKeyPress(key)
    \/ UIEffect
    \/ ChatStep

SpecChatPaced == Init /\ [][NextChatPaced]_vars

FairSpecChatPaced == SpecChatPaced /\ ChatFairness

\* the keyboard side with the linefeed key, one key for each case of the
\* cascade, one key at a time: the sequences of dispatches from the initial
\* state
DispatchKeys == {KeyCtrlC, KeyCtrlA, KeyReturn, KeyBackspace, KeyCtrlU,
                 KeyLeft, KeyRight, KeyA, KeyEnter, KeyUp}

DispatchKeyPress(key) ==
    /\ ~keyDirty
    /\ KeyPress(key, MaxKeyboardSubmits)

NextDispatch ==
    \/ \E key \in DispatchKeys : DispatchKeyPress(key)
    \/ UIEffect

SpecDispatch == Init /\ [][NextDispatch]_vars

\* The editing operations applied to any well-formed buffer, not only to the
\* buffers the keyboard can build: the text is made of the characters the
\* keys type, on one or several lines.
BufferChars == {"a", " "}
BufferLines == UNION {[1..n -> BufferChars] : n \in 0..MaxLen}
WellFormedBuffers ==
    {b \in [lines : UNION {[1..n -> BufferLines] : n \in 1..MaxLines},
            cursor : [row : 0..(MaxLines - 1), column : 0..MaxLen]] :
        WellFormed(b)}

InitBuffer ==
    /\ textBufferState \in WellFormedBuffers
    /\ previousBuffer = textBufferState
    /\ inputMode = "normal"
    /\ lastKeyEvent = NoKey
    /\ keyDirty = FALSE
    /\ undispatched = 0
    /\ exited = FALSE
    /\ isStreaming = FALSE
    /\ timers = 0
    /\ fibers = <<>>
    /\ messageQueue = <<>>
    /\ queueShutdown = FALSE
    /\ chunk = <<>>
    /\ streamEnded = FALSE
    /\ messages = <<>>
    /\ offered = <<>>

\* the keys whose dispatch in normal mode is one editing operation
BufferKeys == {KeyA, KeySpace, KeyBackspace, KeyLeft, KeyRight, KeyCtrlU}

\* one key at a time: each is dispatched before the next is pressed
BufferKeyPress(key) ==
    /\ ~keyDirty
    /\ KeyPress(key, MaxKeyboardSubmits)

NextBuffer ==
    \/ \E key \in BufferKeys : BufferKeyPress(key)
    \/ UIEffect

SpecBuffer == InitBuffer /\ [][NextBuffer]_vars

\* the chat side of a running session, the channel open, with the reset
\* timers of isStreaming
NextStreaming ==
    \/ \E key \in ChatKeys : PacedKeyPress(key)
    \/ UIEffect
    \/ TimerFire
    \/ \E i \in 1..MaxSubmits : Reply(i)
    \/ StreamTake
    \/ ProjectorAppend

SpecStreaming == Init /\ [][NextStreaming]_vars

(* ------------------------------ claims -------------------------------- *)
\* C1: from the initial buffer, after every insert, deleteBackward,
\* moveCursor and clear the keyboard can cause, lines is not empty, the
\* cursor row is in [0, len(lines)) and the cursor column is in
\* [0, len(lines[row])].
C1_CursorStaysInBounds == WellFormed(textBufferState)

\* a line of two characters with the cursor between them: typed, then moved
C1_Witness ==
    /\ Len(textBufferState.lines[1]) = 2
    /\ textBufferState.cursor.column = 1

\* the ids of a sequence of messages, in order
Ids(ms) == [k \in 1..Len(ms) |-> ms[k].id]
Distinct(seq) ==
    \A j, k \in 1..Len(seq) : j # k => seq[j] # seq[k]

\* C2: while the channel is open, what the consumer has received, followed
\* by what the stream holds and what the queue buffers, is exactly the
\* sequence of offered messages in offer order, each message once: nothing
\* is dropped, duplicated or reordered, whichever fibers offered.
C2_FifoExactlyOnce ==
    ~queueShutdown =>
        /\ messages \o chunk \o messageQueue = offered
        /\ Distinct(Ids(messages \o chunk \o messageQueue))

\* messages of two sendMessage calls, one received, one held by the stream,
\* one still in the open queue
C2_Witness ==
    /\ ~queueShutdown
    /\ Len(messages) >= 1
    /\ chunk # <<>>
    /\ messageQueue # <<>>
    /\ \E k \in 1..Len(offered) : CallOf(offered[k]) = 2

\* the position of the message with id `id` in ms, or 0
PositionOf(ms, id) ==
    IF \E k \in 1..Len(ms) : ms[k].id = id
    THEN CHOOSE k \in 1..Len(ms) : ms[k].id = id
    ELSE 0

\* in ms, every assistant message comes after the user message of its call
UserBeforeReply(ms) ==
    \A k \in 1..Len(ms) :
        ms[k].type = "assistant" =>
            LET u == PositionOf(ms, <<CallOf(ms[k]), "user">>)
            IN  u >= 1 /\ u < k

\* C3: in every reachable state, in the channel (the order of offers and the
\* buffered queue) and in the transcript, the assistant reply of a
\* submission comes strictly after the user message of the same submission.
C3_UserBeforeOwnReply ==
    /\ UserBeforeReply(offered)
    /\ UserBeforeReply(messages)
    /\ UserBeforeReply(messages \o chunk \o messageQueue)

\* a second submission made while the channel already carries the first,
\* its reply delivered to the transcript
C3_Witness ==
    /\ \E k \in 1..Len(messages) :
          messages[k].type = "assistant" /\ CallOf(messages[k]) = 2
    /\ \E k \in 1..Len(messages) :
          messages[k].type = "user" /\ CallOf(messages[k]) = 1

\* the messages of ms built by call i with role type
Of(ms, i, type) ==
    {k \in 1..Len(ms) : ms[k].id = <<i, type>>}

\* C4: with the channel open, once two submissions have been made and no
\* sendMessage fiber is still running, the channel has carried exactly four
\* messages: the user message and one assistant reply of each submission.
C4_BothSubmissionsAnswered ==
    (/\ ~queueShutdown
     /\ Len(fibers) = 2
     /\ \A i \in 1..2 : ~Running(fibers[i]))
    => /\ Len(offered) = 4
       /\ \A i \in 1..2 :
             /\ Cardinality(Of(offered, i, "user")) = 1
             /\ Cardinality(Of(offered, i, "assistant")) = 1

\* a step in which the UI effect dispatches lastKeyEvent
Dispatching == keyDirty /\ ~keyDirty'

\* the rule table of the keyboard contract: rule n accepts the key
RuleAccepts(n, key, mode) ==
    CASE n = 1 -> key.ctrl /\ key.name = "c"
      [] n = 2 -> key.ctrl /\ key.name = "a"
      [] n = 3 -> mode = "help"
      [] n = 4 -> key.name = "return"
      [] n = 5 -> key.name = "backspace"
      [] n = 6 -> key.ctrl /\ key.name = "u"
      [] n = 7 -> key.name \in {"left", "right"}
      [] n = 8 -> Len(key.sequence) = 1 /\ ~key.ctrl /\ ~key.meta
      [] n = 9 -> TRUE

Rules == 1..9

FirstRule(key, mode) ==
    CHOOSE n \in Rules :
        /\ RuleAccepts(n, key, mode)
        /\ \A m \in 1..(n - 1) : ~RuleAccepts(m, key, mode)

\* nothing the keyboard contract names changes
NoopEffect ==
    UNCHANGED <<textBufferState, inputMode, exited, fibers, messageQueue,
                offered, messages, isStreaming, timers>>

\* the effect of the action of rule n on the state, for key `key`
RuleEffect(n, key) ==
    CASE n = 1 ->  \* Exit
           /\ exited'
           /\ UNCHANGED <<textBufferState, inputMode, fibers, messageQueue>>
      [] n = 2 ->  \* ToggleMode
           /\ inputMode' # inputMode
           /\ inputMode' \in {"normal", "help"}
           /\ UNCHANGED <<textBufferState, exited, fibers, messageQueue>>
      [] n = 4 ->  \* Submit, which acts on a buffer that is not blank
           IF textBufferIsEmpty(textBufferState)
           THEN NoopEffect
           ELSE /\ Len(fibers') = Len(fibers) + 1
                /\ fibers'[Len(fibers')].content =
                      textBufferString(textBufferState)
                /\ textBufferState' = InitialBuffer
                /\ UNCHANGED <<inputMode, exited>>
      [] n = 5 ->  \* DeleteBackward
           /\ textBufferState' = deleteChar(textBufferState)
           /\ UNCHANGED <<inputMode, exited, fibers, messageQueue>>
      [] n = 6 ->  \* ClearBuffer
           /\ textBufferState' = InitialBuffer
           /\ UNCHANGED <<inputMode, exited, fibers, messageQueue>>
      [] n = 7 ->  \* MoveCursor(name)
           /\ textBufferState' = moveCursor(textBufferState, key.name)
           /\ UNCHANGED <<inputMode, exited, fibers, messageQueue>>
      [] n = 8 ->  \* InsertChar(sequence)
           /\ textBufferState' = insertChar(textBufferState, key.sequence)
           /\ UNCHANGED <<inputMode, exited, fibers, messageQueue>>
      [] OTHER ->  \* rules 3 and 9: Noop
           NoopEffect

DispatchingSubmit ==
    /\ Dispatching
    /\ inputMode = "normal"
    /\ lastKeyEvent.name = "return"
    /\ ~textBufferIsEmpty(textBufferState)

\* a step in which the sleep of call i ends
SleepEnds(i) ==
    /\ i <= Len(fibers)
    /\ Running(fibers[i])
    /\ fibers[i].pc = "sleep"
    /\ fibers'[i].pc # "sleep"

C8_EveryKeyDispatchedOnce ==
    [][Dispatching => undispatched = 1]_vars

IsPrefix(a, b) ==
    /\ Len(a) <= Len(b)
    /\ a = SubSeq(b, 1, Len(a))

\* the most messages a run offers
MaxMessages == 2 * MaxSubmits

\* the transcript is a prefix of the offer history, and a step that changes
\* it appends one message at its end
TranscriptAppendOnly ==
    /\ [](IsPrefix(messages, offered))
    /\ [][messages' # messages =>
             /\ Len(messages') = Len(messages) + 1
             /\ SubSeq(messages', 1, Len(messages)) = messages]_vars

DiscardedByShutdown(k) ==
    /\ queueShutdown
    /\ Len(offered) >= k
    /\ Len(messages) + Len(chunk) < k

C10_OfferAfterShutdownRejected ==
    /\ [][queueShutdown =>
             /\ messageQueue' = messageQueue
             /\ offered' = offered
             /\ (Len(fibers') > Len(fibers) =>
                    /\ fibers'[Len(fibers')].exit = "interrupt"
                    /\ fibers'[Len(fibers')].pc = "offerUser")
             /\ \A i \in 1..Len(fibers) :
                    (Running(fibers[i]) /\ ~Running(fibers'[i])) =>
                        fibers'[i].exit = "interrupt"]_vars
    /\ [][\A i \in 1..Len(fibers) :
             ~Running(fibers[i]) => fibers'[i] = fibers[i]]_vars
    /\ [](\A i \in 1..Len(fibers) :
             (fibers[i].exit = "interrupt" /\ fibers[i].pc = "offerUser") =>
                 /\ Of(offered, i, "user") = {}
                 /\ Of(offered, i, "assistant") = {})
    /\ [](\A i \in 1..Len(fibers) :
             (fibers[i].exit = "interrupt" /\ fibers[i].pc = "offerAi") =>
                 /\ queueShutdown
                 /\ Of(offered, i, "assistant") = {})

\* the first call was stopped at its assistant offer, the second at its
\* user offer
C10_Witness ==
    /\ queueShutdown
    /\ Len(fibers) = 2
    /\ fibers[1].exit = "interrupt" /\ fibers[1].pc = "offerAi"
    /\ fibers[2].exit = "interrupt" /\ fibers[2].pc = "offerUser"
    /\ Len(offered) = 1

Blank(text) == \A k \in 1..Len(text) : text[k] \in WhiteSpace

\* C12: the dispatch of return in normal mode over a blank buffer (empty or
\* white space only) starts no submission: no sendMessage call, nothing
\* enqueued, and the buffer, the cursor and the mode are unchanged.
C12_BlankReturnIsNoop ==
    [][(/\ Dispatching
        /\ inputMode = "normal"
        /\ lastKeyEvent = KeyReturn
        /\ Blank(textBufferString(textBufferState)))
       => UNCHANGED <<textBufferState, inputMode, fibers, messageQueue,
                      offered, isStreaming, timers, exited>>]_vars

\* return has been dispatched in normal mode over a buffer holding two
\* spaces, which is as it was, and nothing was submitted
C12_Witness ==
    /\ inputMode = "normal"
    /\ ~keyDirty
    /\ lastKeyEvent = KeyReturn
    /\ textBufferState.lines = << <<" ", " ">> >>
    /\ textBufferState.cursor.column = 2
    /\ fibers = <<>>
    /\ offered = <<>>

\* C13: clear applied to any buffer, whatever its lines and wherever its
\* cursor, yields exactly lines = [""], cursor = (0,0): every dispatch of
\* ctrl+u in normal mode leaves the buffer in that state.
C13_ClearResetsBuffer ==
    [][(/\ Dispatching
        /\ inputMode = "normal"
        /\ lastKeyEvent = KeyCtrlU)
       => textBufferState' = InitialBuffer]_vars

\* ctrl+u has been dispatched over a two-line buffer whose cursor stood
\* inside the second line
C13_Witness ==
    /\ ~keyDirty
    /\ lastKeyEvent = KeyCtrlU
    /\ Len(previousBuffer.lines) = 2
    /\ previousBuffer.lines[2] = <<"a", " ">>
    /\ previousBuffer.cursor = [row |-> 1, column |-> 1]
    /\ textBufferState = InitialBuffer

\* the three cases of deleteBackward, written position by position
DeleteBackwardReference(b) ==
    LET row == b.cursor.row
        column == b.cursor.column
        n == Len(b.lines)
        line == b.lines[row + 1]
    IN  IF column > 0 THEN
            \* the character before the cursor goes, the column with it
            [lines |->
                [k \in 1..n |->
                    IF k = row + 1
                    THEN [j \in 1..(Len(line) - 1) |->
                             IF j < column THEN line[j] ELSE line[j + 1]]
                    ELSE b.lines[k]],
             cursor |-> [row |-> row, column |-> column - 1]]
        ELSE IF row > 0 THEN
            \* the current line joins the end of the previous one
            [lines |->
                [k \in 1..(n - 1) |->
                    IF k < row THEN b.lines[k]
                    ELSE IF k = row THEN b.lines[row] \o line
                    ELSE b.lines[k + 1]],
             cursor |-> [row |-> row - 1, column |-> Len(b.lines[row])]]
        ELSE b

\* C14: on every well-formed buffer deleteBackward gives the result of the
\* three-case reference: column > 0 removes the character before the cursor
\* and decrements the column; column = 0 and row > 0 merges the current line
\* into the previous one and puts the cursor at (row-1, length of the
\* previous line before the merge); at (0,0) nothing changes, so on the
\* initial empty buffer every repetition is a no-op.
C14_DeleteBackwardThreeCases ==
    [][(/\ Dispatching
        /\ inputMode = "normal"
        /\ lastKeyEvent = KeyBackspace
        /\ WellFormed(textBufferState))
       => /\ textBufferState' = DeleteBackwardReference(textBufferState)
          /\ textBufferState = InitialBuffer =>
                textBufferState' = InitialBuffer]_vars

\* backspace has been dispatched at the start of the second of two lines:
\* "a" and " a" were merged and the cursor stands after the "a" of the first
C14_Witness ==
    /\ ~keyDirty
    /\ lastKeyEvent = KeyBackspace
    /\ previousBuffer.lines = << <<"a">>, <<" ", "a">> >>
    /\ previousBuffer.cursor = [row |-> 1, column |-> 0]
    /\ textBufferState.lines = << <<"a", " ", "a">> >>
    /\ textBufferState.cursor = [row |-> 0, column |-> 1]

\* C15: on a channel that is already shut down, a further shutdown, through
\* dispose or through the finalizer, runs to its end (it does not fail) and
\* changes nothing: the channel is in the closed state the first call left.
C15_ShutdownIdempotent ==
    (queueShutdown /\ ~exited) =>
        /\ ENABLED (Dispose /\ UNCHANGED vars)
        /\ ~ENABLED (Dispose /\ vars' # vars)
        /\ ENABLED (Finalizer /\ UNCHANGED vars)
        /\ ~ENABLED (Finalizer /\ vars' # vars)

\* a channel shut down with a message in the queue and another in the
\* stream, the state every further shutdown steps from and to
C15_Witness ==
    /\ queueShutdown
    /\ messageQueue # <<>>
    /\ chunk # <<>>
    /\ ~streamEnded

\* C16: from every well-formed buffer, multi-line buffers with lines of
\* different lengths included, each single operation (insert,
\* deleteBackward, moveCursor left and right, clear) yields a well-formed
\* buffer.
C16_EachOperationKeepsWellFormed ==
    [][(/\ Dispatching
        /\ inputMode = "normal"
        /\ lastKeyEvent \in BufferKeys
        /\ WellFormed(textBufferState))
       => WellFormed(textBufferState')]_vars

\* after is before with the one character c spliced in at `column`, the
\* number of characters before it
SplicedAt(before, after, column, c) ==
    /\ Len(after) = Len(before) + 1
    /\ \A j \in 1..column : after[j] = before[j]
    /\ after[column + 1] = c
    /\ \A j \in (column + 2)..Len(after) : after[j] = before[j - 1]

\* C17: insert(c) on a well-formed buffer replaces the current line L by
\* L[0..column) + c + L[column..], adds exactly 1 to cursor.column and leaves
\* cursor.row, the number of lines and every other line unchanged.
C17_InsertSplicesAtCursor ==
    [][(/\ Dispatching
        /\ inputMode = "normal"
        /\ lastKeyEvent \in {KeyA, KeySpace}
        /\ WellFormed(textBufferState))
       => LET row == textBufferState.cursor.row
              column == textBufferState.cursor.column
              lines == textBufferState.lines
          IN  /\ Len(textBufferState'.lines) = Len(lines)
              /\ \A k \in 1..Len(lines) :
                     k # row + 1 => textBufferState'.lines[k] = lines[k]
              /\ SplicedAt(lines[row + 1], textBufferState'.lines[row + 1],
                           column, lastKeyEvent.sequence[1])
              /\ textBufferState'.cursor =
                     [row |-> row, column |-> column + 1]]_vars

\* a space has been inserted at the start of the second line "a" of a
\* two-line buffer: the line is " a", the first line is as it was
C17_Witness ==
    /\ ~keyDirty
    /\ lastKeyEvent = KeySpace
    /\ previousBuffer.lines = << <<"a", "a">>, <<"a">> >>
    /\ previousBuffer.cursor = [row |-> 1, column |-> 0]
    /\ textBufferState.lines = << <<"a", "a">>, <<" ", "a">> >>
    /\ textBufferState.cursor = [row |-> 1, column |-> 1]

\* C18: moveCursor changes neither the lines nor cursor.row; it changes
\* cursor.column by -1 (left) or +1 (right) exactly when the resulting column
\* lies in [0, length of the last line of the buffer], and otherwise leaves
\* the whole buffer unchanged.
C18_MoveCursorBoundedByLastLine ==
    [][(/\ Dispatching
        /\ inputMode = "normal"
        /\ lastKeyEvent \in {KeyLeft, KeyRight})
       => LET lines == textBufferState.lines
              column == textBufferState.cursor.column
              target == IF lastKeyEvent = KeyLeft THEN column - 1
                        ELSE column + 1
              inRange == target >= 0 /\ target <= Len(lines[Len(lines)])
          IN  /\ textBufferState'.lines = lines
              /\ textBufferState'.cursor.row = textBufferState.cursor.row
              /\ textBufferState'.cursor.column =
                     IF inRange THEN target ELSE column]_vars

\* right has been dispatched at the end of the first line "a" of a buffer
\* whose last line is "aa": the column is 2, the lines are as they were
C18_Witness ==
    /\ ~keyDirty
    /\ lastKeyEvent = KeyRight
    /\ previousBuffer.lines = << <<"a">>, <<"a", "a">> >>
    /\ previousBuffer.cursor = [row |-> 0, column |-> 1]
    /\ textBufferState.lines = previousBuffer.lines
    /\ textBufferState.cursor = [row |-> 0, column |-> 2]

\* C19: in every state reached from the initial state by dispatching keys,
\* lines has exactly one element and cursor.row = 0, and so had the buffer
\* every dispatch began with: no key adds a line and backspace never finds a
\* previous line to merge into.
C19_AlwaysOneLine ==
    /\ Len(textBufferState.lines) = 1
    /\ textBufferState.cursor.row = 0
    /\ Len(previousBuffer.lines) = 1
    /\ previousBuffer.cursor.row = 0

\* backspace has been dispatched at column 0 of a buffer whose text is a
\* typed linefeed: there was no line to merge, the buffer is as it was
C19_Witness ==
    /\ ~keyDirty
    /\ lastKeyEvent = KeyBackspace
    /\ previousBuffer.lines = << <<"LF">> >>
    /\ previousBuffer.cursor = [row |-> 0, column |-> 0]
    /\ textBufferState = previousBuffer

\* submission i awaits its reply: its user message has been offered and its
\* assistant message has not
AwaitingReply(i) ==
    /\ Of(offered, i, "user") # {}
    /\ Of(offered, i, "assistant") = {}

\* C20: whenever a submission awaits its assistant reply, isStreaming is
\* true, also when a second submission was made before the reset timer of
\* the first one fired.
C20_StreamingWhileAwaitingReply ==
    (\E i \in 1..Len(fibers) : AwaitingReply(i)) => isStreaming

====
